---- MODULE Spec2Model ----
(***************************************************************************)
(* Model of the six-axis force sensor client: the Sensor Acquisition       *)
(* Engine (six_axis_force_sensor.py, SixAxisForceSensor) and the           *)
(* Polling/Connection Controller (qt_app.py, SensorController).            *)
(*                                                                         *)
(* Python floats are modelled as exact rationals <<num, den>> in lowest    *)
(* terms (den > 0).  The values the model draws (counts times              *)
(* force_range_n / 32768, and their means over a few samples) make the     *)
(* products and differences exact in IEEE-754 too; only the division by    *)
(* `samples` in bias() may round in the program.                           *)
(*                                                                         *)
(* A raised Python exception is modelled as a result record with           *)
(* kind = "exc" carrying the exception's text (str(e)).                    *)
(***************************************************************************)
EXTENDS Integers, Sequences, FiniteSets, TLC

VARIABLES
  cfg,        \* SensorController.cfg
  sensor,     \* SensorController.sensor: the SixAxisForceSensor's fields
  connected,  \* SensorController.connected
  last_error, \* SensorController.last_error
  api,        \* which read_holding_registers calling convention the installed client accepts
  healthy,    \* environment: the link is up (connect() succeeds, every read answers)
  called,     \* history: the public operation called last
  lastOp      \* history: that operation's inputs, the calls it made, what it emitted

vars == <<cfg, sensor, connected, last_error, api, healthy, called, lastOp>>

-----------------------------------------------------------------------------
(* Bounds of the model *)

\* largest `samples` argument passed to tare()
MaxSamples == 2

-----------------------------------------------------------------------------
(* Exact rational arithmetic standing for float arithmetic *)

\* K applied to the value of x, with x evaluated once (as Python evaluates an
\* expression once and binds the result)
Strict(K(_), x) == CHOOSE y \in {K(v) : v \in {x}} : TRUE

Abs(n) == IF n < 0 THEN -n ELSE n

\* Euclid's algorithm
RECURSIVE GCD(_, _)
GCD(a, b) == IF b = 0 THEN a ELSE Strict(LAMBDA r : GCD(b, r), a % b)

LCM(a, b) == (a \div GCD(a, b)) * b

\* the rational n/d (d # 0) in lowest terms with a positive denominator
Rat(n, d) ==
  Strict(LAMBDA p :
           Strict(LAMBDA g : <<((IF p[2] < 0 THEN -1 ELSE 1) * p[1]) \div g,
                               ((IF p[2] < 0 THEN -1 ELSE 1) * p[2]) \div g>>,
                  GCD(Abs(p[1]), Abs(p[2]))),
         <<n, d>>)

RZero == <<0, 1>>
RAdd(x, y) ==
  Strict(LAMBDA p :
           Strict(LAMBDA l : Rat(p[1][1] * (l \div p[1][2]) + p[2][1] * (l \div p[2][2]), l),
                  LCM(p[1][2], p[2][2])),
         <<x, y>>)
RSub(x, y) ==
  Strict(LAMBDA p :
           Strict(LAMBDA l : Rat(p[1][1] * (l \div p[1][2]) - p[2][1] * (l \div p[2][2]), l),
                  LCM(p[1][2], p[2][2])),
         <<x, y>>)
\* the integer c times x
RMulInt(c, x) ==
  Strict(LAMBDA p :
           Strict(LAMBDA g : Rat((p[1] \div g) * p[2][1], p[2][2] \div g),
                  GCD(Abs(p[1]), p[2][2])),
         <<c, x>>)
\* x divided by the positive integer k
RDivInt(x, k) ==
  Strict(LAMBDA p :
           Strict(LAMBDA g : Rat(p[1][1] \div g, p[1][2] * (p[2] \div g)),
                  GCD(Abs(p[1][1]), p[2])),
         <<x, k>>)
RLeqZero(x) == x[1] <= 0

-----------------------------------------------------------------------------
(* Results of calls: a returned value or a raised exception *)

Ok(v) == [kind |-> "ok", value |-> v, text |-> ""]
Exc(t) == [kind |-> "exc", value |-> <<>>, text |-> t]
IsExc(r) == r.kind = "exc"

-----------------------------------------------------------------------------
(* Wrench *)

Wrench(fx, fy, fz, tx, ty, tz) ==
  [fx |-> fx, fy |-> fy, fz |-> fz, tx |-> tx, ty |-> ty, tz |-> tz]

ZeroWrench == Wrench(RZero, RZero, RZero, RZero, RZero, RZero)

as_tuple(w) == <<w.fx, w.fy, w.fz, w.tx, w.ty, w.tz>>

ZeroTuple == <<RZero, RZero, RZero, RZero, RZero, RZero>>

-----------------------------------------------------------------------------
(* Conversion unit *)

U16Mask == 65535
U16Modulus == 65536
S16SignBit == 32768

\* mutant of u16_to_s16: the sign bit alone is not taken as negative
u16_to_s16_MissesSignBit(value) ==
  LET v == value % (U16Mask + 1)
  IN  IF v > S16SignBit THEN v - U16Modulus ELSE v

u16_to_s16(value) ==
  LET v == value % (U16Mask + 1)
  IN  IF v >= S16SignBit THEN v - U16Modulus ELSE v

-----------------------------------------------------------------------------
(* Transport: ModbusTcpClient as seen by the engine *)

\* One response of client.read_holding_registers(...):
\*   "regs"      a response object whose .registers holds the value v
\*   "noregs"    None, or a response without (or with empty) .registers
\*   "TypeError" the call's signature is not accepted by the client
\*   "raise"     any other exception, with text str(e)
RegsResp(v) == [t |-> "regs", v |-> v, text |-> ""]
NoRegsResp == [t |-> "noregs", v |-> 0, text |-> ""]
TypeErrorResp == [t |-> "TypeError", v |-> 0, text |-> ""]
RaiseResp(text) == [t |-> "raise", v |-> 0, text |-> text]

\* the calling conventions _read_u16 tries, in list order
call_variants == <<"pos_unit", "pos_slave", "kw_unit", "kw_slave", "kw_device_id">>

\* The installed client accepts exactly the convention number `a`; it answers
\* that call with r and rejects every other signature with a TypeError.
ClientResponses(a, r) ==
  [j \in 1..Len(call_variants) |-> IF j = a THEN r ELSE TypeErrorResp]

\* outcome of client.connect(): a truthy value, a falsy value, or an exception
ConnectTrue == [t |-> "true", text |-> ""]
ConnectFalse == [t |-> "false", text |-> ""]
ConnectRaise(text) == [t |-> "raise", text |-> text]

-----------------------------------------------------------------------------
(* Sensor Acquisition Engine: SixAxisForceSensor *)

DeviceErrorText(device_id) ==
  CASE device_id = 1 -> "read_holding_registers failed for device_id=1"
    [] device_id = 2 -> "read_holding_registers failed for device_id=2"
    [] device_id = 3 -> "read_holding_registers failed for device_id=3"
    [] OTHER -> "read_holding_registers failed for device_id=?"

\* SixAxisForceSensor.__init__: Ok(the new engine) or the ValueError
SensorInit(n_per_count, axis_device_ids, address) ==
  IF RLeqZero(n_per_count)
  THEN Exc("n_per_count must be > 0")
  ELSE Ok([n_per_count |-> n_per_count,
           axis_device_ids |-> axis_device_ids,
           addresses |-> [i \in 1..Len(axis_device_ids) |-> address],
           bias |-> ZeroWrench])

\* SixAxisForceSensor.connect: bool(client.connect()), exceptions propagate
SensorConnect(co) ==
  CASE co.t = "true" -> Ok(TRUE)
    [] co.t = "false" -> Ok(FALSE)
    [] OTHER -> Exc(co.text)

\* mutant of ReadU16From: a response without registers ends the read with the
\* device error instead of moving on to the next variant
RECURSIVE ReadU16From_StopsAtEmpty(_, _, _)
ReadU16From_StopsAtEmpty(resps, i, device_id) ==
  IF i > Len(resps)
  THEN [kind |-> "exc", value |-> 0, text |-> DeviceErrorText(device_id),
        calls |-> Len(resps)]
  ELSE LET resp == resps[i]
       IN  CASE resp.t = "regs" ->
                  [kind |-> "ok", value |-> resp.v % (U16Mask + 1), text |-> "",
                   calls |-> i]
             [] resp.t = "raise" ->
                  [kind |-> "exc", value |-> 0, text |-> resp.text, calls |-> i]
             [] resp.t = "noregs" ->
                  [kind |-> "exc", value |-> 0, text |-> DeviceErrorText(device_id),
                   calls |-> i]
             [] OTHER -> ReadU16From_StopsAtEmpty(resps, i + 1, device_id)

\* _read_u16 from call variant i on: the first variant whose response holds a
\* register wins; a TypeError or a response without registers moves on; any
\* other exception propagates; `calls` counts the variants invoked.
RECURSIVE ReadU16From(_, _, _)
ReadU16From(resps, i, device_id) ==
  IF i > Len(resps)
  THEN [kind |-> "exc", value |-> 0, text |-> DeviceErrorText(device_id),
        calls |-> Len(resps)]
  ELSE LET resp == resps[i]
       IN  CASE resp.t = "regs" ->
                  [kind |-> "ok", value |-> resp.v % (U16Mask + 1), text |-> "",
                   calls |-> i]
             [] resp.t = "raise" ->
                  [kind |-> "exc", value |-> 0, text |-> resp.text, calls |-> i]
             [] OTHER -> ReadU16From(resps, i + 1, device_id)

read_u16(resps, device_id) == ReadU16From(resps, 1, device_id)

\* mutant of ReadRawFrom: a failing axis ends the read with the values read
\* so far
RECURSIVE ReadRawFrom_ReturnsPartial(_, _, _, _, _, _)
ReadRawFrom_ReturnsPartial(s, a, trace, i, values, reads) ==
  IF i > Len(s.axis_device_ids)
  THEN [kind |-> "ok", value |-> values, text |-> "", reads |-> reads]
  ELSE Strict(LAMBDA r :
                IF IsExc(r)
                THEN [kind |-> "ok", value |-> values, text |-> "",
                      reads |-> Append(reads, <<s.axis_device_ids[i], s.addresses[i], r.calls>>)]
                ELSE ReadRawFrom_ReturnsPartial(s, a, trace, i + 1, Append(values, r.value),
                                 Append(reads, <<s.axis_device_ids[i], s.addresses[i], r.calls>>)),
              read_u16(ClientResponses(a, trace[i]), s.axis_device_ids[i]))

\* read_raw_u16 from axis i on.  trace[i] is the transport's answer for axis i;
\* `reads` logs <<device_id, address, calls>> for every register read made.
RECURSIVE ReadRawFrom(_, _, _, _, _, _)
ReadRawFrom(s, a, trace, i, values, reads) ==
  IF i > Len(s.axis_device_ids)
  THEN [kind |-> "ok", value |-> values, text |-> "", reads |-> reads]
  ELSE Strict(LAMBDA r :
                IF IsExc(r)
                THEN [kind |-> "exc", value |-> <<>>, text |-> r.text,
                      reads |-> Append(reads, <<s.axis_device_ids[i], s.addresses[i], r.calls>>)]
                ELSE ReadRawFrom(s, a, trace, i + 1, Append(values, r.value),
                                 Append(reads, <<s.axis_device_ids[i], s.addresses[i], r.calls>>)),
              read_u16(ClientResponses(a, trace[i]), s.axis_device_ids[i]))

read_raw_u16(s, a, trace) == ReadRawFrom(s, a, trace, 1, <<>>, <<>>)

\* mutant of read_counts: the raw values are passed on unconverted
read_counts_Unsigned(s, a, trace) == read_raw_u16(s, a, trace)

read_counts(s, a, trace) ==
  Strict(LAMBDA r :
           IF IsExc(r) THEN r
           ELSE [r EXCEPT !.value = [i \in 1..Len(r.value) |-> u16_to_s16(r.value[i])]],
         read_raw_u16(s, a, trace))

\* mutant of get_wrench: an axis that is not configured repeats the first
\* count
get_wrench_RepeatsFx(s, a, trace, unbiased) ==
  Strict(LAMBDA r :
           LET counts == r.value
               fx == RMulInt(IF Len(counts) > 0 THEN counts[1] ELSE 0, s.n_per_count)
               fy == RMulInt(IF Len(counts) > 1 THEN counts[2] ELSE counts[1], s.n_per_count)
               fz == RMulInt(IF Len(counts) > 2 THEN counts[3] ELSE counts[1], s.n_per_count)
               wrench == Wrench(fx, fy, fz, RZero, RZero, RZero)
           IN  IF IsExc(r) THEN r
               ELSE IF unbiased THEN [r EXCEPT !.value = wrench]
               ELSE [r EXCEPT !.value =
                       Wrench(RSub(wrench.fx, s.bias.fx), RSub(wrench.fy, s.bias.fy),
                              RSub(wrench.fz, s.bias.fz), RSub(wrench.tx, s.bias.tx),
                              RSub(wrench.ty, s.bias.ty), RSub(wrench.tz, s.bias.tz))],
         read_counts(s, a, trace))

\* mutant of get_wrench: the bias is never subtracted
get_wrench_NoBias(s, a, trace, unbiased) ==
  Strict(LAMBDA r :
           LET counts == r.value
               fx == RMulInt(IF Len(counts) > 0 THEN counts[1] ELSE 0, s.n_per_count)
               fy == RMulInt(IF Len(counts) > 1 THEN counts[2] ELSE 0, s.n_per_count)
               fz == RMulInt(IF Len(counts) > 2 THEN counts[3] ELSE 0, s.n_per_count)
           IN  IF IsExc(r) THEN r
               ELSE [r EXCEPT !.value = Wrench(fx, fy, fz, RZero, RZero, RZero)],
         read_counts(s, a, trace))

get_wrench(s, a, trace, unbiased) ==
  Strict(LAMBDA r :
           LET counts == r.value
               fx == RMulInt(IF Len(counts) > 0 THEN counts[1] ELSE 0, s.n_per_count)
               fy == RMulInt(IF Len(counts) > 1 THEN counts[2] ELSE 0, s.n_per_count)
               fz == RMulInt(IF Len(counts) > 2 THEN counts[3] ELSE 0, s.n_per_count)
               wrench == Wrench(fx, fy, fz, RZero, RZero, RZero)
           IN  IF IsExc(r) THEN r
               ELSE IF unbiased THEN [r EXCEPT !.value = wrench]
               ELSE [r EXCEPT !.value =
                       Wrench(RSub(wrench.fx, s.bias.fx), RSub(wrench.fy, s.bias.fy),
                              RSub(wrench.fz, s.bias.fz), RSub(wrench.tx, s.bias.tx),
                              RSub(wrench.ty, s.bias.ty), RSub(wrench.tz, s.bias.tz))],
         read_counts(s, a, trace))

get_force_torque(s, a, trace, unbiased) ==
  Strict(LAMBDA r : IF IsExc(r) THEN r ELSE [r EXCEPT !.value = as_tuple(r.value)],
         get_wrench(s, a, trace, unbiased))

\* mutant of BiasLoop: a read failure stores the average of the samples taken
\* so far
RECURSIVE BiasLoop_CommitsPartial(_, _, _, _, _, _, _, _, _)
BiasLoop_CommitsPartial(s, a, samples, traces, k, sum_fx, sum_fy, sum_fz, reads) ==
  IF k > samples
  THEN LET b == Wrench(RDivInt(sum_fx, samples), RDivInt(sum_fy, samples),
                       RDivInt(sum_fz, samples), RZero, RZero, RZero)
       IN  [kind |-> "ok", value |-> b, text |-> "", reads |-> reads,
            sensor |-> [s EXCEPT !.bias = b]]
  ELSE Strict(LAMBDA w :
                IF IsExc(w)
                THEN [kind |-> "exc", value |-> <<>>, text |-> w.text,
                      reads |-> reads \o w.reads,
                      sensor |-> IF k = 1 THEN s
                                 ELSE [s EXCEPT !.bias =
                                         Wrench(RDivInt(sum_fx, k - 1), RDivInt(sum_fy, k - 1),
                                                RDivInt(sum_fz, k - 1), RZero, RZero, RZero)]]
                ELSE BiasLoop_CommitsPartial(s, a, samples, traces, k + 1,
                                             RAdd(sum_fx, w.value.fx), RAdd(sum_fy, w.value.fy),
                                             RAdd(sum_fz, w.value.fz), reads \o w.reads),
              get_wrench(s, a, traces[k], TRUE))

\* mutant of BiasLoop: the samples are biased reads, so re-taring compounds
RECURSIVE BiasLoop_Biased(_, _, _, _, _, _, _, _, _)
BiasLoop_Biased(s, a, samples, traces, k, sum_fx, sum_fy, sum_fz, reads) ==
  IF k > samples
  THEN LET b == Wrench(RDivInt(sum_fx, samples), RDivInt(sum_fy, samples),
                       RDivInt(sum_fz, samples), RZero, RZero, RZero)
       IN  [kind |-> "ok", value |-> b, text |-> "", reads |-> reads,
            sensor |-> [s EXCEPT !.bias = b]]
  ELSE Strict(LAMBDA w :
                IF IsExc(w)
                THEN [kind |-> "exc", value |-> <<>>, text |-> w.text,
                      reads |-> reads \o w.reads, sensor |-> s]
                ELSE BiasLoop_Biased(s, a, samples, traces, k + 1,
                                     RAdd(sum_fx, w.value.fx), RAdd(sum_fy, w.value.fy),
                                     RAdd(sum_fz, w.value.fz), reads \o w.reads),
              get_wrench(s, a, traces[k], FALSE))

\* the sampling loop of bias(), from sample k on; traces[k] is the transport's
\* answer to the k-th read cycle
RECURSIVE BiasLoop(_, _, _, _, _, _, _, _, _)
BiasLoop(s, a, samples, traces, k, sum_fx, sum_fy, sum_fz, reads) ==
  IF k > samples
  THEN LET b == Wrench(RDivInt(sum_fx, samples), RDivInt(sum_fy, samples),
                       RDivInt(sum_fz, samples), RZero, RZero, RZero)
       IN  [kind |-> "ok", value |-> b, text |-> "", reads |-> reads,
            sensor |-> [s EXCEPT !.bias = b]]
  ELSE Strict(LAMBDA w :
                IF IsExc(w)
                THEN [kind |-> "exc", value |-> <<>>, text |-> w.text,
                      reads |-> reads \o w.reads, sensor |-> s]
                ELSE BiasLoop(s, a, samples, traces, k + 1, RAdd(sum_fx, w.value.fx),
                              RAdd(sum_fy, w.value.fy), RAdd(sum_fz, w.value.fz),
                              reads \o w.reads),
              get_wrench(s, a, traces[k], TRUE))

\* mutant of bias: samples <= 0 is not refused; an empty sampling stores a
\* zero bias
bias_NoSampleCheck(s, a, samples, traces) ==
  IF samples <= 0
  THEN [kind |-> "ok", value |-> ZeroWrench, text |-> "",
        reads |-> <<>>, sensor |-> [s EXCEPT !.bias = ZeroWrench]]
  ELSE BiasLoop(s, a, samples, traces, 1, RZero, RZero, RZero, <<>>)

\* SixAxisForceSensor.bias(samples=..., delay_s=0.0)
bias(s, a, samples, traces) ==
  IF samples <= 0
  THEN [kind |-> "exc", value |-> <<>>, text |-> "samples must be > 0",
        reads |-> <<>>, sensor |-> s]
  ELSE BiasLoop(s, a, samples, traces, 1, RZero, RZero, RZero, <<>>)

\* mutant of unbias: only fy and fz of the bias are reset
unbias_KeepsFx(s) ==
  [s EXCEPT !.bias = Wrench(s.bias.fx, RZero, RZero, RZero, RZero, RZero)]

\* mutant of unbias: the bias is left as it is
unbias_KeepsBias(s) == s

unbias(s) == [s EXCEPT !.bias = ZeroWrench]

-----------------------------------------------------------------------------
(* Configuration: AppConfig *)

\* AppConfig.n_per_count: float(force_range_n) / float(counts_full_scale)
cfg_n_per_count(c) ==
  IF c.counts_full_scale = 0
  THEN Exc("float division by zero")
  ELSE Ok(Rat(c.force_range_n, c.counts_full_scale))

AppConfig(force_range_n, counts_full_scale, axis_device_ids) ==
  [address |-> 0, axis_device_ids |-> axis_device_ids,
   force_range_n |-> force_range_n, counts_full_scale |-> counts_full_scale]

\* AppConfig's field defaults
DefaultConfig == AppConfig(20, 32768, <<1, 2, 3>>)

-----------------------------------------------------------------------------
(* Polling / Connection Controller: SensorController *)

\* The controller's own fields, as one value c:
\*   [cfg, sensor, connected, last_error]
\* The result of a public operation or helper:
\*   c        the fields afterwards
\*   raised   "" or the text of the exception that escaped to the caller
\*   escaped  an exception escaped to the caller
\*   ret      the return value (helpers)
\*   updated / bias_updated   the payloads emitted on the two signals, in order
\*   connects the outcomes of the sensor.connect() calls made
\*   closes   the number of sensor.close() calls made
\*   reads    the register reads made

Effects(c, ret, escaped, raised, updated, bias_updated, connects, closes, reads) ==
  [c |-> c, ret |-> ret, escaped |-> escaped, raised |-> raised,
   updated |-> updated, bias_updated |-> bias_updated,
   connects |-> connects, closes |-> closes, reads |-> reads]

\* SensorController._build_sensor
build_sensor(c) ==
  LET n == cfg_n_per_count(c)
  IN  IF IsExc(n) THEN n ELSE SensorInit(n.value, c.axis_device_ids, c.address)

\* SensorController.__init__ with a configuration that builds
ControllerInit(c) ==
  [cfg |-> c, sensor |-> build_sensor(c).value, connected |-> FALSE, last_error |-> ""]

\* SensorController.reconfigure: close() (its errors swallowed), then the new
\* configuration is stored, then the engine is built; a failure to build
\* propagates and skips the two assignments after it.
reconfigure(c, newCfg) ==
  Strict(LAMBDA built :
           IF IsExc(built)
           THEN Effects([c EXCEPT !.cfg = newCfg], FALSE, TRUE, built.text,
                        <<>>, <<>>, <<>>, 1, <<>>)
           ELSE Effects([cfg |-> newCfg, sensor |-> built.value, connected |-> FALSE,
                         last_error |-> ""], FALSE, FALSE, "", <<>>, <<>>, <<>>, 1, <<>>),
         build_sensor(newCfg))

\* mutant of ensure_connected: a successful connect() is not recorded in the flag
ensure_connected_ForgetsFlag(c, co) ==
  IF c.connected
  THEN Effects(c, TRUE, FALSE, "", <<>>, <<>>, <<>>, 0, <<>>)
  ELSE LET r == SensorConnect(co)
       IN  IF IsExc(r)
           THEN Effects([c EXCEPT !.connected = FALSE, !.last_error = r.text],
                        FALSE, FALSE, "", <<>>, <<>>, <<co>>, 0, <<>>)
           ELSE IF r.value
           THEN Effects(c, TRUE, FALSE, "", <<>>, <<>>, <<co>>, 0, <<>>)
           ELSE Effects([c EXCEPT !.connected = FALSE,
                                  !.last_error = "connect() returned False"],
                        FALSE, FALSE, "", <<>>, <<>>, <<co>>, 0, <<>>)

\* mutant of ensure_connected: connect() is called whatever the flag says
ensure_connected_AlwaysConnects(c, co) ==
  LET r == SensorConnect(IF co.t = "none" THEN ConnectTrue ELSE co)
  IN  IF IsExc(r)
      THEN Effects([c EXCEPT !.connected = FALSE, !.last_error = r.text],
                   FALSE, FALSE, "", <<>>, <<>>, <<co>>, 0, <<>>)
      ELSE IF r.value
      THEN Effects([c EXCEPT !.connected = TRUE],
                   TRUE, FALSE, "", <<>>, <<>>, <<co>>, 0, <<>>)
      ELSE Effects([c EXCEPT !.connected = FALSE,
                             !.last_error = "connect() returned False"],
                   FALSE, FALSE, "", <<>>, <<>>, <<co>>, 0, <<>>)

\* SensorController._ensure_connected; co is the outcome client.connect() would have
ensure_connected(c, co) ==
  IF c.connected
  THEN Effects(c, TRUE, FALSE, "", <<>>, <<>>, <<>>, 0, <<>>)
  ELSE LET r == SensorConnect(co)
       IN  IF IsExc(r)
           THEN Effects([c EXCEPT !.connected = FALSE, !.last_error = r.text],
                        FALSE, FALSE, "", <<>>, <<>>, <<co>>, 0, <<>>)
           ELSE IF r.value
           THEN Effects([c EXCEPT !.connected = TRUE],
                        TRUE, FALSE, "", <<>>, <<>>, <<co>>, 0, <<>>)
           ELSE Effects([c EXCEPT !.connected = FALSE,
                                  !.last_error = "connect() returned False"],
                        FALSE, FALSE, "", <<>>, <<>>, <<co>>, 0, <<>>)

\* the text of RuntimeError(self.last_error or "not connected")
NotConnectedText(c) == IF c.last_error # "" THEN c.last_error ELSE "not connected"

\* mutant of PollFailed: the except branch forgets to emit
PollFailed_NoEmit(c, e) ==
  [c |-> [c EXCEPT !.connected = FALSE, !.last_error = e], updated |-> <<>>]

\* mutant of PollFailed: the except branch leaves the connected flag alone
PollFailed_KeepsConnected(c, e) ==
  [c |-> [c EXCEPT !.last_error = e],
   updated |-> <<[ft |-> ZeroTuple, message |-> e, connected |-> FALSE]>>]

\* mutant of PollFailed: the except branch also resets the engine's bias
PollFailed_ClearsBias(c, e) ==
  [c |-> [c EXCEPT !.connected = FALSE, !.last_error = e, !.sensor = unbias(c.sensor)],
   updated |-> <<[ft |-> ZeroTuple, message |-> e, connected |-> FALSE]>>]

\* the except branch of poll(): e is the text of the caught exception
PollFailed(c, e) ==
  [c |-> [c EXCEPT !.connected = FALSE, !.last_error = e],
   updated |-> <<[ft |-> ZeroTuple, message |-> e, connected |-> FALSE]>>]

\* mutant of poll: a successful poll also stores the wrench it read as the bias
poll_AlsoTares(c, a, co, trace) ==
  Strict(LAMBDA ec :
    IF ~ec.ret
    THEN Strict(LAMBDA f :
                  Effects(f.c, FALSE, FALSE, "", f.updated, <<>>, ec.connects, 0, <<>>),
                PollFailed(ec.c, NotConnectedText(ec.c)))
    ELSE Strict(LAMBDA ft :
           IF IsExc(ft)
           THEN Strict(LAMBDA f :
                         Effects(f.c, FALSE, FALSE, "", f.updated, <<>>, ec.connects, 0,
                                 ft.reads),
                       PollFailed(ec.c, ft.text))
           ELSE LET ok == [ec.c EXCEPT !.last_error = "Modbus OK",
                                       !.sensor.bias = get_wrench(ec.c.sensor, a, trace, TRUE).value]
                IN  Effects(ok, FALSE, FALSE, "",
                            <<[ft |-> ft.value, message |-> ok.last_error,
                               connected |-> TRUE]>>,
                            <<>>, ec.connects, 0, ft.reads),
           get_force_torque(ec.c.sensor, a, trace, FALSE)),
    ensure_connected(c, co))

\* mutant of poll: the except branch closes the engine's link
poll_ClosesOnFault(c, a, co, trace) ==
  Strict(LAMBDA ec :
    IF ~ec.ret
    THEN Strict(LAMBDA f :
                  Effects(f.c, FALSE, FALSE, "", f.updated, <<>>, ec.connects, 1, <<>>),
                PollFailed(ec.c, NotConnectedText(ec.c)))
    ELSE Strict(LAMBDA ft :
           IF IsExc(ft)
           THEN Strict(LAMBDA f :
                         Effects(f.c, FALSE, FALSE, "", f.updated, <<>>, ec.connects, 1,
                                 ft.reads),
                       PollFailed(ec.c, ft.text))
           ELSE LET ok == [ec.c EXCEPT !.last_error = "Modbus OK"]
                IN  Effects(ok, FALSE, FALSE, "",
                            <<[ft |-> ft.value, message |-> ok.last_error,
                               connected |-> TRUE]>>,
                            <<>>, ec.connects, 0, ft.reads),
           get_force_torque(ec.c.sensor, a, trace, FALSE)),
    ensure_connected(c, co))

\* mutant of poll: a read cycle that fails is tried once more before giving up
poll_RetriesRead(c, a, co, trace) ==
  Strict(LAMBDA ec :
    IF ~ec.ret
    THEN Strict(LAMBDA f :
                  Effects(f.c, FALSE, FALSE, "", f.updated, <<>>, ec.connects, 0, <<>>),
                PollFailed(ec.c, NotConnectedText(ec.c)))
    ELSE Strict(LAMBDA ft :
           IF IsExc(ft)
           THEN Strict(LAMBDA f :
                         Effects(f.c, FALSE, FALSE, "", f.updated, <<>>, ec.connects, 0,
                                 ft.reads \o ft.reads),
                       PollFailed(ec.c, ft.text))
           ELSE LET ok == [ec.c EXCEPT !.last_error = "Modbus OK"]
                IN  Effects(ok, FALSE, FALSE, "",
                            <<[ft |-> ft.value, message |-> ok.last_error,
                               connected |-> TRUE]>>,
                            <<>>, ec.connects, 0, ft.reads),
           get_force_torque(ec.c.sensor, a, trace, FALSE)),
    ensure_connected(c, co))

\* SensorController.poll
poll(c, a, co, trace) ==
  Strict(LAMBDA ec :
    IF ~ec.ret
    THEN Strict(LAMBDA f :
                  Effects(f.c, FALSE, FALSE, "", f.updated, <<>>, ec.connects, 0, <<>>),
                PollFailed(ec.c, NotConnectedText(ec.c)))
    ELSE Strict(LAMBDA ft :
           IF IsExc(ft)
           THEN Strict(LAMBDA f :
                         Effects(f.c, FALSE, FALSE, "", f.updated, <<>>, ec.connects, 0,
                                 ft.reads),
                       PollFailed(ec.c, ft.text))
           ELSE LET ok == [ec.c EXCEPT !.last_error = "Modbus OK"]
                IN  Effects(ok, FALSE, FALSE, "",
                            <<[ft |-> ft.value, message |-> ok.last_error,
                               connected |-> TRUE]>>,
                            <<>>, ec.connects, 0, ft.reads),
           get_force_torque(ec.c.sensor, a, trace, FALSE)),
    ensure_connected(c, co))

\* mutant of TareFailed: the except branch does not record the error text
TareFailed_DropsError(c, e) == [c EXCEPT !.connected = FALSE]

\* mutant of TareFailed: the except branch leaves the connected flag alone
TareFailed_KeepsConnected(c, e) == [c EXCEPT !.last_error = e]

\* the except branch of tare()
TareFailed(c, e) == [c EXCEPT !.connected = FALSE, !.last_error = e]

\* mutant of tare: the bias in force before the call is emitted
tare_EmitsOldBias(c, a, samples, co, traces) ==
  Strict(LAMBDA ec :
    IF ~ec.ret
    THEN Effects(TareFailed(ec.c, NotConnectedText(ec.c)), FALSE, FALSE, "",
                 <<>>, <<>>, ec.connects, 0, <<>>)
    ELSE Strict(LAMBDA b :
           IF IsExc(b)
           THEN Effects(TareFailed(ec.c, b.text), FALSE, FALSE, "",
                        <<>>, <<>>, ec.connects, 0, b.reads)
           ELSE Effects([ec.c EXCEPT !.sensor = b.sensor], FALSE, FALSE, "",
                        <<>>, <<as_tuple(ec.c.sensor.bias)>>, ec.connects, 0, b.reads),
           bias(ec.c.sensor, a, samples, traces)),
    ensure_connected(c, co))

\* SensorController.tare
tare(c, a, samples, co, traces) ==
  Strict(LAMBDA ec :
    IF ~ec.ret
    THEN Effects(TareFailed(ec.c, NotConnectedText(ec.c)), FALSE, FALSE, "",
                 <<>>, <<>>, ec.connects, 0, <<>>)
    ELSE Strict(LAMBDA b :
           IF IsExc(b)
           THEN Effects(TareFailed(ec.c, b.text), FALSE, FALSE, "",
                        <<>>, <<>>, ec.connects, 0, b.reads)
           ELSE Effects([ec.c EXCEPT !.sensor = b.sensor], FALSE, FALSE, "",
                        <<>>, <<as_tuple(b.value)>>, ec.connects, 0, b.reads),
           bias(ec.c.sensor, a, samples, traces)),
    ensure_connected(c, co))

\* mutant of clear: the bias is reset without telling the observers
clear_NoEmit(c) ==
  Effects([c EXCEPT !.sensor = unbias(c.sensor)], FALSE, FALSE, "",
          <<>>, <<>>, <<>>, 0, <<>>)

\* SensorController.clear
clear(c) ==
  Effects([c EXCEPT !.sensor = unbias(c.sensor)], FALSE, FALSE, "",
          <<>>, <<ZeroTuple>>, <<>>, 0, <<>>)

-----------------------------------------------------------------------------
(* Inputs the environment may supply *)

\* raw register values each device may answer with
RawVals(device_id) ==
  CASE device_id = 1 -> {40000, 10000}
    [] device_id = 2 -> {10000}
    [] OTHER -> {0}

\* texts str(e) of exceptions raised by the transport (an exception built
\* without arguments has the empty text)
ExcTexts == {"", "timed out"}

\* configurations handed to reconfigure(): the defaults, a single axis with
\* another force range, and two that do not build (non-positive scale, zero
\* divisor)
Configs ==
  {DefaultConfig, AppConfig(40, 32768, <<1>>),
   AppConfig(-20, 32768, <<1, 2, 3>>), AppConfig(20, 0, <<1, 2, 3>>)}

\* the `samples` arguments of tare()
SampleArgs == 0..MaxSamples

\* the calling convention the installed client accepts (slave=, positional)
ApiChoices == {2}

HealthyConnects == {ConnectTrue}
ConnectOutcomes ==
  HealthyConnects \cup {ConnectFalse} \cup {ConnectRaise(t) : t \in ExcTexts}

GoodResps(device_id) == {RegsResp(v) : v \in RawVals(device_id)}
BadResps == {NoRegsResp} \cup {RaiseResp(t) : t \in ExcTexts}

\* what the transport answers during one read cycle over the devices ids: a
\* register for every axis, or registers up to an axis whose read fails
RECURSIVE HealthyPrefixes(_, _)
HealthyPrefixes(ids, n) ==
  IF n <= 0 THEN {<<>>}
  ELSE {Append(p, r) : p \in HealthyPrefixes(ids, n - 1), r \in GoodResps(ids[n])}
HealthyCycles(ids) == HealthyPrefixes(ids, Len(ids))
FaultyCycles(ids) ==
  UNION {{Append(p, f) : p \in HealthyPrefixes(ids, i - 1), f \in BadResps} :
           i \in 1..Len(ids)}
Cycles(ids) == HealthyCycles(ids) \cup FaultyCycles(ids)

\* what the transport answers during up to k consecutive read cycles: k
\* healthy cycles, or a steady reading repeated up to a cycle that fails
RECURSIVE HealthyRuns(_, _)
HealthyRuns(ids, k) ==
  IF k <= 0 THEN {<<>>}
  ELSE {Append(r, cyc) : r \in HealthyRuns(ids, k - 1), cyc \in HealthyCycles(ids)}
SteadyRuns(ids, k) == {[i \in 1..k |-> cyc] : cyc \in HealthyCycles(ids)}
FaultyRuns(ids, k) ==
  UNION {{Append(r, cyc) : r \in SteadyRuns(ids, j - 1), cyc \in FaultyCycles(ids)} :
           j \in 1..k}
Runs(ids, k) == HealthyRuns(ids, k) \cup FaultyRuns(ids, k)

-----------------------------------------------------------------------------
(* State machine *)

Ctl == [cfg |-> cfg, sensor |-> sensor, connected |-> connected, last_error |-> last_error]

NoConnect == [t |-> "none", text |-> ""]

\* the record kept of an operation: its arguments, what the transport
\* answered, whether the controller was connected before, and its effects
OpRecord(samples, co, traces, e) ==
  [samples |-> samples, co |-> co, traces |-> traces,
   preConnected |-> connected,
   escaped |-> e.escaped, raised |-> e.raised,
   updated |-> e.updated, bias_updated |-> e.bias_updated,
   connects |-> e.connects, closes |-> e.closes, reads |-> e.reads]

InitRecord ==
  [samples |-> 0, co |-> NoConnect, traces |-> <<>>,
   preConnected |-> FALSE, escaped |-> FALSE, raised |-> "",
   updated |-> <<>>, bias_updated |-> <<>>, connects |-> <<>>,
   closes |-> 0, reads |-> <<>>]

\* what is kept of a record when only the outline of an operation is of
\* interest: the state it started in, whether an exception escaped and the
\* connected flags it emitted
Summary(rec) ==
  [InitRecord EXCEPT !.preConnected = rec.preConnected,
                     !.escaped = rec.escaped,
                     !.updated = [i \in 1..Len(rec.updated) |->
                                    [connected |-> rec.updated[i].connected]]]

\* the controller's fields after the operation, and the record of it (in
\* full, or its summary)
Commit(e, rec, full) ==
  /\ cfg' = e.c.cfg
  /\ sensor' = e.c.sensor
  /\ connected' = e.c.connected
  /\ last_error' = e.c.last_error
  /\ lastOp' = IF full THEN rec ELSE Summary(rec)
  /\ UNCHANGED <<api, healthy>>

\* connect outcomes the link may produce now (none is drawn when connected)
ConnectInputs ==
  IF connected THEN {NoConnect}
  ELSE IF healthy THEN HealthyConnects ELSE ConnectOutcomes

\* read cycles the link may produce for a poll that gets as far as reading
PollInputs(co) ==
  IF co.t \in {"none", "true"}
  THEN (IF healthy THEN HealthyCycles(sensor.axis_device_ids)
        ELSE Cycles(sensor.axis_device_ids))
  ELSE {<<>>}

\* read cycles the link may produce for a tare that gets as far as sampling
TareInputs(co, samples) ==
  IF co.t \in {"none", "true"} /\ samples > 0
  THEN (IF healthy THEN HealthyRuns(sensor.axis_device_ids, samples)
        ELSE Runs(sensor.axis_device_ids, samples))
  ELSE {<<>>}

\* SensorController(DefaultConfig) just constructed
ControllerStart ==
  /\ cfg = DefaultConfig
  /\ sensor = ControllerInit(DefaultConfig).sensor
  /\ connected = FALSE
  /\ last_error = ""
  /\ api \in ApiChoices
  /\ called = "init"
  /\ lastOp = InitRecord

\* the poll timer fires (or MainWindow calls poll() directly)
PollAction(full) ==
  /\ called' = "poll"
  /\ \E co \in ConnectInputs :
       \E trace \in PollInputs(co) :
         \E e \in {poll(Ctl, api, co, trace)} :
           Commit(e, OpRecord(0, co, <<trace>>, e), full)

\* the Tare button (or any caller of tare(samples))
TareAction(full) ==
  /\ called' = "tare"
  /\ \E samples \in SampleArgs, co \in ConnectInputs :
       \E traces \in TareInputs(co, samples) :
         \E e \in {tare(Ctl, api, samples, co, traces)} :
           Commit(e, OpRecord(samples, co, traces, e), full)

\* the Clear button
ClearAction(full) ==
  /\ called' = "clear"
  /\ \E e \in {clear(Ctl)} :
       Commit(e, OpRecord(0, NoConnect, <<>>, e), full)

\* settings saved
ReconfigureAction(full) ==
  /\ called' = "reconfigure"
  /\ \E newCfg \in Configs :
       \E e \in {reconfigure(Ctl, newCfg)} :
         Commit(e, OpRecord(0, NoConnect, <<>>, e), full)

(* Spec: the controller driven by its callers over a link that guarantees
   nothing; every operation is recorded in full. *)
Init == ControllerStart /\ healthy = FALSE

Poll == PollAction(TRUE)
Tare == TareAction(TRUE)
Clear == ClearAction(TRUE)
Reconfigure == ReconfigureAction(TRUE)

Next == Poll \/ Tare \/ Clear \/ Reconfigure

Spec == Init /\ [][Next]_vars

(* SpecLive: the same controller over a link that fails and recovers, with
   the poll timer firing forever (weak fairness of the poll); operations are
   recorded in summary. *)
InitLive == ControllerStart /\ healthy \in BOOLEAN

PollLive == PollAction(FALSE)
TareLive == TareAction(FALSE)
ClearLive == ClearAction(FALSE)
ReconfigureLive == ReconfigureAction(FALSE)

\* the link fails or recovers
LinkChange ==
  /\ healthy' = ~healthy
  /\ UNCHANGED <<cfg, sensor, connected, last_error, api, called, lastOp>>

NextLive == PollLive \/ TareLive \/ ClearLive \/ ReconfigureLive \/ LinkChange

SpecLive == InitLive /\ [][NextLive]_vars /\ WF_vars(PollLive)

-----------------------------------------------------------------------------
(* Reading the record of the last operation *)

\* a response that is not a register value makes the read of that axis fail
TraceFaulty(trace) == \E i \in 1..Len(trace) : trace[i].t # "regs"

\* a connect() was attempted and did not return true
ConnectFailed(rec) == rec.co.t \in {"false", "raise"}

\* the connection was found (no connect needed) or established
ConnectionOk(rec) == rec.co.t \in {"none", "true"}

\* some read cycle of the operation had a failing register read
ReadFaulted(rec) == \E k \in 1..Len(rec.traces) : TraceFaulty(rec.traces[k])

\* an operation ran in this step (and changed something)
OpDone ==
  <<cfg, sensor, connected, last_error, called, lastOp>>'
    # <<cfg, sensor, connected, last_error, called, lastOp>>

-----------------------------------------------------------------------------
(* Claims about the Controller's poll() *)

\* C1: every poll(), whatever the connection state and whatever connect() and
\* the register reads did, emits exactly one `updated` notification (a 6-tuple,
\* a message, a connected flag) and no `bias_updated` notification.
C1_PollEmitsOnce ==
  called = "poll" =>
    /\ Len(lastOp.updated) = 1
    /\ Len(lastOp.updated[1].ft) = 6
    /\ lastOp.updated[1].connected \in BOOLEAN
    /\ Len(lastOp.bias_updated) = 0

\* a poll that connected and then lost a register read
C1_Witness ==
  /\ called = "poll"
  /\ lastOp.co.t = "true"
  /\ ReadFaulted(lastOp)

\* C2: a poll() that fails (connect() returned false or raised while
\* Disconnected, or the biased read raised) emits the all-zero wrench with
\* connected = false and leaves the Controller Disconnected.
C2_FailedPollCollapses ==
  (/\ called = "poll"
   /\ \/ (~lastOp.preConnected /\ ConnectFailed(lastOp))
      \/ ReadFaulted(lastOp))
  => /\ Len(lastOp.updated) = 1
     /\ lastOp.updated[1].ft = ZeroTuple
     /\ lastOp.updated[1].connected = FALSE
     /\ connected = FALSE

\* a poll of a Connected controller whose read faulted part-way through
C2_Witness ==
  /\ called = "poll"
  /\ lastOp.preConnected
  /\ Len(lastOp.reads) = 2
  /\ ReadFaulted(lastOp)
  /\ ~connected

\* the signed count the engine should derive from the i-th answer of a healthy
\* read cycle (0 for an axis that is not configured)
ExpectedCount(trace, i) ==
  IF i > Len(trace) THEN 0
  ELSE IF trace[i].v >= 32768 THEN trace[i].v - 65536 ELSE trace[i].v

\* the biased 6-tuple the engine should return for a healthy read cycle
ExpectedFt(trace) ==
  <<RSub(RMulInt(ExpectedCount(trace, 1), sensor.n_per_count), sensor.bias.fx),
    RSub(RMulInt(ExpectedCount(trace, 2), sensor.n_per_count), sensor.bias.fy),
    RSub(RMulInt(ExpectedCount(trace, 3), sensor.n_per_count), sensor.bias.fz),
    RSub(RZero, sensor.bias.tx), RSub(RZero, sensor.bias.ty), RSub(RZero, sensor.bias.tz)>>

\* C3: a poll() that finds or establishes the connection and whose read
\* succeeds emits the biased wrench (scaled signed counts minus the Bias
\* Vector), the message "Modbus OK" and connected = true, and leaves the
\* Controller Connected.
C3_SuccessfulPoll ==
  (called = "poll" /\ ConnectionOk(lastOp) /\ ~ReadFaulted(lastOp))
  => /\ lastOp.updated =
          <<[ft |-> ExpectedFt(lastOp.traces[1]), message |-> "Modbus OK",
             connected |-> TRUE]>>
     /\ connected = TRUE

\* a successful poll with a negative count on Fx and a non-zero bias in force
C3_Witness ==
  /\ called = "poll"
  /\ ConnectionOk(lastOp) /\ ~ReadFaulted(lastOp)
  /\ lastOp.traces[1][1].v = 40000
  /\ sensor.bias.fx # RZero
  /\ lastOp.updated[1].ft[1] # RMulInt(-25536, sensor.n_per_count)

\* C4: every poll notification with connected = false carries a non-empty
\* message equal to lastError after the poll; in particular a poll whose read
\* raises right after a successful poll emits the zero wrench, connected =
\* false and a non-empty message, and leaves the Controller Disconnected.
C4_FailureMessageNonEmpty ==
  (called = "poll" /\ lastOp.updated[1].connected = FALSE)
  => /\ lastOp.updated[1].message # ""
     /\ lastOp.updated[1].message = last_error
     /\ lastOp.updated[1].ft = ZeroTuple
     /\ connected = FALSE

\* C5: a poll() during which connect() (if attempted) returns true and every
\* axis read succeeds ends Connected and emits connected = true, from any
\* reachable state; and whenever the link stays healthy from some point on
\* while the poll timer keeps firing, the Controller becomes Connected.
C5_RecoveryByOnePoll ==
  /\ [][(healthy /\ called' = "poll" /\ OpDone)
        => (connected' /\ lastOp'.updated = <<[connected |-> TRUE]>>)]_vars
  /\ []<>(~healthy \/ connected)

\* the link is healthy and a poll has just reconnected a controller that an
\* earlier failure had left Disconnected with its error text
C5_Witness ==
  /\ healthy
  /\ called = "poll"
  /\ ~lastOp.preConnected
  /\ lastOp.updated = <<[connected |-> TRUE]>>
  /\ connected
  /\ sensor.bias # ZeroWrench

-----------------------------------------------------------------------------
(* Claims about error containment, tare(), clear() and reconfigure() *)

\* C6: none of poll(), tare(samples), clear() and reconfigure(cfg) lets an
\* exception propagate to its caller, for any transport behaviour, any
\* samples value and any configuration.
C6_NoExceptionEscapes ==
  called \in {"poll", "tare", "clear", "reconfigure"} => ~lastOp.escaped

\* the answers of the read cycle a tare stopped in
LastCycle(rec) == rec.traces[Len(rec.traces)]

\* the text a failed tare should leave in lastError: that of the connect
\* failure, or that of the register read that faulted
TareErrorText(rec) ==
  IF rec.co.t = "false" THEN "connect() returned False"
  ELSE IF rec.co.t = "raise"
  THEN (IF rec.co.text # "" THEN rec.co.text ELSE "not connected")
  ELSE LET f == LastCycle(rec)[Len(LastCycle(rec))]
       IN  IF f.t = "raise" THEN f.text
           ELSE DeviceErrorText(sensor.axis_device_ids[Len(LastCycle(rec))])

\* C7: a tare(samples) that fails because ensure-connected fails or because a
\* register read faults during biasing emits no notification of either kind,
\* leaves the Bias Vector unchanged, records the error text in lastError and
\* leaves the Controller Disconnected.
C7_FailedTareIsSilent ==
  /\ []((called = "tare" /\ (ConnectFailed(lastOp) \/ ReadFaulted(lastOp)))
        => /\ lastOp.updated = <<>>
           /\ lastOp.bias_updated = <<>>
           /\ last_error = TareErrorText(lastOp)
           /\ connected = FALSE)
  /\ [][(called' = "tare" /\ OpDone /\ (ConnectFailed(lastOp') \/ ReadFaulted(lastOp')))
        => sensor'.bias = sensor.bias]_vars

\* a tare of a Connected controller with a bias in force whose second sample
\* faulted on the last axis
C7_Witness ==
  /\ called = "tare"
  /\ lastOp.preConnected
  /\ lastOp.samples = 2
  /\ Len(lastOp.traces) = 2
  /\ Len(lastOp.reads) = 6
  /\ ReadFaulted(lastOp)
  /\ sensor.bias # ZeroWrench

\* the tare got its connection, was asked for at least one sample and every
\* register read answered
TareSucceeded(rec) == ConnectionOk(rec) /\ rec.samples > 0 /\ ~ReadFaulted(rec)

BiasTuple ==
  <<sensor.bias.fx, sensor.bias.fy, sensor.bias.fz,
    sensor.bias.tx, sensor.bias.ty, sensor.bias.tz>>

\* C8 as stated: every tare(samples) and every clear() emits a `bias_updated`
\* notification carrying the Engine's Bias Vector as 6 floats.
C8_EveryTareAndClearEmits ==
  called \in {"tare", "clear"} => lastOp.bias_updated = <<BiasTuple>>

\* C8 as amended: every clear() and every tare(samples) that succeeds emits
\* exactly one `bias_updated` notification carrying the Engine's Bias Vector
\* as 6 floats (and no `updated` notification); a tare that fails emits none.
C8_SuccessfulTareAndClearEmit ==
  /\ (called = "clear" \/ (called = "tare" /\ TareSucceeded(lastOp)))
       => (lastOp.bias_updated = <<BiasTuple>> /\ lastOp.updated = <<>>)
  /\ (called = "tare" /\ ~TareSucceeded(lastOp)) => lastOp.bias_updated = <<>>

\* a two-sample tare over two different Fx readings has just succeeded
C8_Witness ==
  /\ called = "tare"
  /\ TareSucceeded(lastOp)
  /\ lastOp.samples = 2
  /\ lastOp.traces[1][1].v # lastOp.traces[2][1].v
  /\ lastOp.bias_updated[1][1] # RZero

\* C9: clear() in any state performs no transport I/O, sets the Bias Vector to
\* zero, emits exactly one bias notification carrying the all-zero tuple, and
\* leaves the connected flag and lastError unchanged.
C9_ClearIsLocal ==
  /\ [](called = "clear"
        => /\ lastOp.connects = <<>> /\ lastOp.reads = <<>> /\ lastOp.closes = 0
           /\ sensor.bias = ZeroWrench
           /\ lastOp.bias_updated = <<ZeroTuple>>
           /\ lastOp.updated = <<>>)
  /\ [][(called' = "clear" /\ OpDone)
        => (connected' = connected /\ last_error' = last_error)]_vars

\* clear() was called on a Disconnected controller holding an error text
C9_Witness ==
  /\ called = "clear"
  /\ ~connected
  /\ last_error = "timed out"

\* C10: after reconfigure(newCfg), from any prior state, the Controller is
\* Disconnected and the Bias Vector of its Engine is zero.
C10_ReconfigureResets ==
  called = "reconfigure" => (connected = FALSE /\ sensor.bias = ZeroWrench)

-----------------------------------------------------------------------------
(* The Engine used directly: construction, the n_per_count setter,
   read_raw_u16, get_wrench, bias and unbias *)

\* largest `samples` argument passed to bias() directly
MaxBiasSamples == 3

\* arguments of SixAxisForceSensor(...): n_per_count (None when has_n_per_count
\* is FALSE), force_range_n, counts_full_scale, axis_device_ids and address
\* (an int when address_is_int, else the sequence `addresses`)
SensorArgs(has_n_per_count, n_per_count, force_range_n, counts_full_scale, axis_device_ids, address_is_int, address, addresses) ==
  [has_n_per_count |-> has_n_per_count, n_per_count |-> n_per_count,
   force_range_n |-> force_range_n, counts_full_scale |-> counts_full_scale,
   axis_device_ids |-> axis_device_ids, address_is_int |-> address_is_int,
   address |-> address, addresses |-> addresses]

\* SixAxisForceSensor.__init__ with all its arguments: Ok(the new engine) or
\* the exception raised
SensorNew(args) ==
  IF ~args.has_n_per_count /\ args.counts_full_scale = 0
  THEN Exc("float division by zero")
  ELSE Strict(LAMBDA n :
         IF RLeqZero(n)
         THEN Exc("n_per_count must be > 0")
         ELSE IF args.address_is_int
         THEN Ok([n_per_count |-> n,
                  axis_device_ids |-> args.axis_device_ids,
                  addresses |-> [i \in 1..Len(args.axis_device_ids) |-> args.address],
                  bias |-> ZeroWrench])
         ELSE IF Len(args.addresses) # Len(args.axis_device_ids)
         THEN Exc("address sequence length must match axis_device_ids length")
         ELSE Ok([n_per_count |-> n,
                  axis_device_ids |-> args.axis_device_ids,
                  addresses |-> args.addresses,
                  bias |-> ZeroWrench]),
         IF args.has_n_per_count THEN args.n_per_count
         ELSE Rat(args.force_range_n, args.counts_full_scale))

\* mutant of set_n_per_count: the value is stored unchecked
set_n_per_count_NoCheck(s, value) ==
  [kind |-> "ok", value |-> <<>>, text |-> "", sensor |-> [s EXCEPT !.n_per_count = value]]

\* the n_per_count setter: the engine afterwards, or the ValueError and the
\* engine as it was
set_n_per_count(s, value) ==
  IF RLeqZero(value)
  THEN [kind |-> "exc", value |-> <<>>, text |-> "n_per_count must be > 0", sensor |-> s]
  ELSE [kind |-> "ok", value |-> <<>>, text |-> "", sensor |-> [s EXCEPT !.n_per_count = value]]

\* constructor arguments tried: the default range over three axes with a
\* per-axis address list, one axis with n_per_count given, and arguments that
\* must be refused (negative range, zero and negative n_per_count, an address
\* list of the wrong length)
EngineArgs ==
  {SensorArgs(FALSE, RZero, 20, 32768, <<1, 2, 3>>, FALSE, 0, <<7, 5, 6>>),
   SensorArgs(TRUE, Rat(40, 32768), 20, 32768, <<1>>, TRUE, 0, <<>>),
   SensorArgs(FALSE, RZero, -20, 32768, <<1, 2, 3>>, TRUE, 0, <<>>),
   SensorArgs(TRUE, RZero, 20, 32768, <<1, 2, 3>>, TRUE, 0, <<>>),
   SensorArgs(TRUE, Rat(-1, 2), 20, 32768, <<1>>, TRUE, 0, <<>>),
   SensorArgs(FALSE, RZero, 20, 32768, <<1, 2, 3>>, FALSE, 0, <<7, 5>>)}

\* values assigned through the n_per_count setter
ScaleArgs == {Rat(40, 32768), RZero, Rat(-1, 2)}

\* the `samples` arguments of bias(): negative, zero, one, and the largest
BiasSampleArgs == {-1, 0, 1, MaxBiasSamples}

\* a run of k healthy cycles whose first axis climbs by 8192 counts a sample
StairRun(ids, k) ==
  [i \in 1..k |-> [j \in 1..Len(ids) |-> RegsResp(IF j = 1 THEN 8192 * i ELSE 0)]]

\* what the transport answers during the k read cycles of a bias(): a steady
\* reading, the climbing run, or a steady reading up to a cycle that fails
EngineRuns(ids, k) ==
  IF k <= 0 THEN {<<>>}
  ELSE SteadyRuns(ids, k) \cup {StairRun(ids, k)} \cup FaultyRuns(ids, k)

\* the record kept of a direct engine call: the call made before it (kept for
\* unbias only), whether a bias was in force before it (kept for bias and
\* unbias only), its arguments, what the transport answered, and its outcome
\* (kind "ok"/"exc", exception text, returned value, reads made)
EngineRecord(prev, pre_biased, samples, unbiased, traces, arg, r, reads) ==
  [prev |-> prev, pre_biased |-> pre_biased, samples |-> samples,
   unbiased |-> unbiased, traces |-> traces, arg |-> arg, kind |-> r.kind,
   text |-> r.text, ret |-> r.value, reads |-> reads]

EngineFrame == UNCHANGED <<cfg, connected, last_error, api, healthy>>

\* an engine just constructed from arguments the constructor accepts
InitEngine ==
  /\ cfg = DefaultConfig
  /\ \E args \in EngineArgs :
       /\ ~IsExc(SensorNew(args))
       /\ sensor = SensorNew(args).value
       /\ lastOp = EngineRecord("", FALSE, 0, FALSE, <<>>, args, Ok(<<>>), <<>>)
  /\ connected = FALSE
  /\ last_error = ""
  /\ api \in ApiChoices
  /\ healthy = FALSE
  /\ called = "__init__"

\* engine = SixAxisForceSensor(...): the name is rebound only if no exception
EngineConstruct ==
  /\ called' = "__init__"
  /\ \E args \in EngineArgs :
       \E r \in {SensorNew(args)} :
         /\ sensor' = IF IsExc(r) THEN sensor ELSE r.value
         /\ lastOp' = EngineRecord("", FALSE, 0, FALSE, <<>>, args, [r EXCEPT !.value = <<>>], <<>>)
  /\ EngineFrame

\* engine.n_per_count = value
EngineSetScale ==
  /\ called' = "n_per_count"
  /\ \E value \in ScaleArgs :
       \E r \in {set_n_per_count(sensor, value)} :
         /\ sensor' = r.sensor
         /\ lastOp' = EngineRecord("", FALSE, 0, FALSE, <<>>, value, r, <<>>)
  /\ EngineFrame

\* a healthy cycle whose registers hold more than 16 bits
WideCycle(ids) == [j \in 1..Len(ids) |-> RegsResp(65536 * j + 40000)]

\* engine.read_raw_u16()
EngineReadRaw ==
  /\ called' = "read_raw_u16"
  /\ \E trace \in Cycles(sensor.axis_device_ids) \cup {WideCycle(sensor.axis_device_ids)} :
       \E r \in {read_raw_u16(sensor, api, trace)} :
         /\ sensor' = sensor
         /\ lastOp' = EngineRecord("", FALSE, 0, FALSE, <<trace>>, <<>>, r, r.reads)
  /\ EngineFrame

\* engine.get_wrench(unbiased=...)
EngineGetWrench ==
  /\ called' = "get_wrench"
  /\ \E unbiased \in BOOLEAN, trace \in Cycles(sensor.axis_device_ids) :
       \E r \in {get_wrench(sensor, api, trace, unbiased)} :
         /\ sensor' = sensor
         /\ lastOp' = EngineRecord("", FALSE, 0, unbiased, <<trace>>, <<>>, r, r.reads)
  /\ EngineFrame

\* engine.bias(samples=...)
EngineBias ==
  /\ called' = "bias"
  /\ \E samples \in BiasSampleArgs :
       \E traces \in EngineRuns(sensor.axis_device_ids, samples) :
         \E r \in {bias(sensor, api, samples, traces)} :
           /\ sensor' = r.sensor
           /\ lastOp' = EngineRecord("", sensor.bias # ZeroWrench, samples, TRUE, traces, <<>>,
                                     r, r.reads)
  /\ EngineFrame

\* engine.unbias()
EngineUnbias ==
  /\ called' = "unbias"
  /\ sensor' = unbias(sensor)
  /\ lastOp' = EngineRecord(called, sensor.bias # ZeroWrench, 0, FALSE, <<>>, <<>>,
                           Ok(<<>>), <<>>)
  /\ EngineFrame

NextEngine ==
  \/ EngineConstruct
  \/ EngineSetScale
  \/ EngineReadRaw
  \/ EngineGetWrench
  \/ EngineBias
  \/ EngineUnbias

(* SpecEngine: one engine called directly, in any order, over a link that
   guarantees nothing. *)
SpecEngine == InitEngine /\ [][NextEngine]_vars

-----------------------------------------------------------------------------
(* Claims about the Engine's bias() and unbias() *)

\* C11: if any register read fails during any of the reads of bias(samples),
\* bias() raises and the Bias Vector equals its value before the call, however
\* many samples had already been read successfully; no partial average is
\* ever stored.
C11_FailedBiasKeepsBias ==
  /\ []((called = "bias" /\ lastOp.samples > 0 /\ ReadFaulted(lastOp))
        => lastOp.kind = "exc")
  /\ [][(called' = "bias" /\ lastOp'.samples > 0 /\ ReadFaulted(lastOp'))
        => sensor'.bias = sensor.bias]_vars

\* a bias(3) over an engine with a bias in force read two samples and lost a
\* register read in the third
C11_Witness ==
  /\ called = "bias"
  /\ lastOp.samples = 3
  /\ Len(lastOp.traces) = 3
  /\ ~TraceFaulty(lastOp.traces[1]) /\ ~TraceFaulty(lastOp.traces[2])
  /\ TraceFaulty(lastOp.traces[3])
  /\ lastOp.kind = "exc"
  /\ lastOp.pre_biased
  /\ sensor.bias # ZeroWrench

\* the sum of the unbiased force of axis j over the first k read cycles
RECURSIVE SumForce(_, _, _)
SumForce(traces, j, k) ==
  IF k = 0 THEN RZero
  ELSE RAdd(SumForce(traces, j, k - 1),
            RMulInt(ExpectedCount(traces[k], j), sensor.n_per_count))

\* C12: when all reads succeed, bias(N) with N > 0 performs exactly N unbiased
\* read cycles and stores and returns a Bias Vector whose fx, fy, fz are the
\* arithmetic means of the N unbiased force samples and whose torques are 0,
\* whatever Bias Vector was in force before (unbiased Fx samples 10, 20, 30
\* give biasFx = 20).
C12_BiasIsMean ==
  (called = "bias" /\ lastOp.samples > 0 /\ ~ReadFaulted(lastOp))
    => /\ lastOp.kind = "ok"
       /\ Len(lastOp.traces) = lastOp.samples
       /\ Len(lastOp.reads) = lastOp.samples * Len(sensor.axis_device_ids)
       /\ lastOp.ret = sensor.bias
       /\ RMulInt(lastOp.samples, sensor.bias.fx) = SumForce(lastOp.traces, 1, lastOp.samples)
       /\ RMulInt(lastOp.samples, sensor.bias.fy) = SumForce(lastOp.traces, 2, lastOp.samples)
       /\ RMulInt(lastOp.samples, sensor.bias.fz) = SumForce(lastOp.traces, 3, lastOp.samples)
       /\ sensor.bias.tx = RZero /\ sensor.bias.ty = RZero /\ sensor.bias.tz = RZero

\* a bias(3) over Fx samples 10, 20 and 30 N, taken with another bias in force,
\* stored 20 N
C12_Witness ==
  /\ called = "bias"
  /\ lastOp.samples = 3
  /\ lastOp.kind = "ok"
  /\ lastOp.pre_biased
  /\ sensor.n_per_count = Rat(40, 32768)
  /\ [k \in 1..3 |-> lastOp.traces[k][1].v] = <<8192, 16384, 24576>>
  /\ sensor.bias.fx = <<20, 1>>

\* C13: after bias(N) followed immediately by unbias(), whatever the Bias
\* Vector was before and whatever the registers hold, a biased read returns
\* exactly the wrench an unbiased read of the same raw values returns.
C13_UnbiasUndoesBias ==
  /\ []((called = "unbias" /\ lastOp.prev = "bias")
        => \A trace \in Cycles(sensor.axis_device_ids) :
             get_wrench(sensor, api, trace, FALSE) = get_wrench(sensor, api, trace, TRUE))
  /\ [][(/\ called = "unbias" /\ lastOp.prev = "bias"
         /\ called' = "get_wrench" /\ ~lastOp'.unbiased /\ lastOp'.kind = "ok")
        => lastOp'.ret = get_wrench(sensor, api, lastOp'.traces[1], TRUE).value]_vars

\* unbias() was called right after a bias(2) that had stored a non-zero bias
C13_Witness ==
  /\ called = "unbias"
  /\ lastOp.prev = "bias"
  /\ lastOp.pre_biased
  /\ sensor.bias = ZeroWrench

\* C14: bias(samples) with samples <= 0 fails with a configuration error
\* (ValueError "samples must be > 0") before any register read is performed
\* and leaves the Bias Vector unchanged.
C14_BiasRefusesNoSamples ==
  /\ []((called = "bias" /\ lastOp.samples <= 0)
        => /\ lastOp.kind = "exc"
           /\ lastOp.text = "samples must be > 0"
           /\ lastOp.reads = <<>>)
  /\ [][(called' = "bias" /\ lastOp'.samples <= 0)
        => sensor'.bias = sensor.bias]_vars

\* bias(-1) was refused by an engine holding a non-zero bias
C14_Witness ==
  /\ called = "bias"
  /\ lastOp.samples = -1
  /\ lastOp.kind = "exc"
  /\ lastOp.pre_biased
  /\ sensor.bias # ZeroWrench

-----------------------------------------------------------------------------
(* Claims about the Engine's reads and conversions *)

\* C15: read_raw_u16 reads the axes in Axis Address Table order, one
\* (device id, address) pair per axis; if the read of axis i fails it raises
\* without reading any axis after i and returns no partial tuple; on success
\* the result holds exactly one value in 0..65535 per configured axis, in
\* table order.
C15_ReadRawInTableOrder ==
  called = "read_raw_u16" =>
    LET trace == lastOp.traces[1]
        n == Len(sensor.axis_device_ids)
        failing == {i \in 1..n : i <= Len(trace) /\ trace[i].t # "regs"}
        last == IF failing = {} THEN n ELSE CHOOSE i \in failing : \A j \in failing : i <= j
    IN  /\ Len(lastOp.reads) = last
        /\ \A i \in 1..last :
             /\ lastOp.reads[i][1] = sensor.axis_device_ids[i]
             /\ lastOp.reads[i][2] = sensor.addresses[i]
        /\ failing # {} => (lastOp.kind = "exc" /\ lastOp.ret = <<>>)
        /\ failing = {} =>
             /\ lastOp.kind = "ok"
             /\ Len(lastOp.ret) = n
             /\ \A i \in 1..n :
                  /\ lastOp.ret[i] \in 0..65535
                  /\ lastOp.ret[i] = trace[i].v % 65536

\* a read over three axes with their own addresses lost the second axis
C15_Witness ==
  /\ called = "read_raw_u16"
  /\ sensor.axis_device_ids = <<1, 2, 3>>
  /\ sensor.addresses = <<7, 5, 6>>
  /\ Len(lastOp.traces[1]) = 2
  /\ lastOp.traces[1][2].t = "raise"
  /\ lastOp.reads = <<<<1, 7, 2>>, <<2, 5, 2>>>>
  /\ lastOp.kind = "exc"

-----------------------------------------------------------------------------
(* The raw-to-signed transform on its own *)

\* the register value a device sends for the signed count s (two's complement)
to_unsigned(s) == s % U16Modulus

\* a signed count s, the register value that encodes it, and the count decoded
\* from that register (0 until decoded)
ConvertRecord(s, counts) == [s |-> s, raw |-> to_unsigned(s), counts |-> counts]

\* every signed 16-bit count, encoded and not yet decoded
InitConvert ==
  /\ cfg = DefaultConfig
  /\ sensor = ControllerInit(DefaultConfig).sensor
  /\ connected = FALSE
  /\ last_error = ""
  /\ api \in ApiChoices
  /\ healthy = FALSE
  /\ called = "init"
  /\ lastOp \in {ConvertRecord(s, 0) : s \in (-S16SignBit)..(S16SignBit - 1)}

\* _u16_to_s16(raw)
Convert ==
  /\ called = "init"
  /\ called' = "_u16_to_s16"
  /\ lastOp' = ConvertRecord(lastOp.s, u16_to_s16(lastOp.raw))
  /\ UNCHANGED <<cfg, sensor, connected, last_error, api, healthy>>

NextConvert == Convert

(* SpecConvert: _u16_to_s16 applied to every 16-bit register value. *)
SpecConvert == InitConvert /\ [][NextConvert]_vars

\* C16: for every raw value v in 0..65535 the raw-to-signed transform returns
\* v when v < 32768 and v - 65536 otherwise, so its result lies in
\* -32768..32767, and it inverts the unsigned encoding:
\* toSigned(s mod 65536) = s for every s in -32768..32767.
C16_SignedTransform ==
  called = "_u16_to_s16" =>
    /\ lastOp.raw \in 0..65535
    /\ lastOp.counts = IF lastOp.raw < 32768 THEN lastOp.raw ELSE lastOp.raw - 65536
    /\ lastOp.counts \in (-32768)..32767
    /\ lastOp.counts = lastOp.s

\* the register holding the sign bit alone was decoded to -32768
C16_Witness ==
  /\ called = "_u16_to_s16"
  /\ lastOp.raw = 32768
  /\ lastOp.s = -32768
  /\ lastOp.counts = -32768

-----------------------------------------------------------------------------
(* Claims about get_wrench *)

\* the wrench an unbiased read of a healthy cycle should return
ExpectedUnbiased(trace) ==
  Wrench(RMulInt(ExpectedCount(trace, 1), sensor.n_per_count),
         RMulInt(ExpectedCount(trace, 2), sensor.n_per_count),
         RMulInt(ExpectedCount(trace, 3), sensor.n_per_count),
         RZero, RZero, RZero)

\* C17: an unbiased read returns fx, fy, fz equal to the first three signed
\* counts each multiplied by the scale factor, with torques 0, and a biased
\* read returns that wrench minus the Bias Vector component-wise; for raw
\* registers 40000, 10000, 0 and scale 20/32768 the signed counts are -25536,
\* 10000, 0 and the unbiased forces -15.5859375 (-1995/128), 6.103515625
\* (3125/512) and 0.
C17_WrenchFromCounts ==
  (called = "get_wrench" /\ lastOp.kind = "ok") =>
    LET trace == lastOp.traces[1]
        u == ExpectedUnbiased(trace)
    IN  /\ lastOp.unbiased => lastOp.ret = u
        /\ ~lastOp.unbiased =>
             lastOp.ret = Wrench(RSub(u.fx, sensor.bias.fx), RSub(u.fy, sensor.bias.fy),
                                 RSub(u.fz, sensor.bias.fz), RSub(u.tx, sensor.bias.tx),
                                 RSub(u.ty, sensor.bias.ty), RSub(u.tz, sensor.bias.tz))
        /\ (/\ lastOp.unbiased
            /\ sensor.n_per_count = Rat(20, 32768)
            /\ [i \in 1..Len(trace) |-> trace[i].v] = <<40000, 10000, 0>>)
           => /\ [i \in 1..3 |-> ExpectedCount(trace, i)] = <<-25536, 10000, 0>>
              /\ lastOp.ret.fx = <<-1995, 128>>
              /\ lastOp.ret.fy = <<3125, 512>>
              /\ lastOp.ret.fz = RZero

\* the registers 40000, 10000, 0 were read unbiased at scale 20/32768 by an
\* engine holding a non-zero bias
C17_Witness ==
  /\ called = "get_wrench"
  /\ lastOp.kind = "ok"
  /\ lastOp.unbiased
  /\ sensor.n_per_count = Rat(20, 32768)
  /\ [i \in 1..Len(lastOp.traces[1]) |-> lastOp.traces[1][i].v] = <<40000, 10000, 0>>
  /\ sensor.bias # ZeroWrench
  /\ lastOp.ret.fx = <<-1995, 128>>

\* C18: for an Engine configured with exactly one axis, every read (biased or
\* unbiased, before or after any sequence of bias() and unbias() calls) yields
\* fy = 0 and fz = 0 and performs exactly one register read.
C18_SingleAxisEngine ==
  Len(sensor.axis_device_ids) = 1 =>
    /\ sensor.bias.fy = RZero /\ sensor.bias.fz = RZero
    /\ called = "get_wrench" =>
         /\ Len(lastOp.reads) = 1
         /\ lastOp.kind = "ok" => (lastOp.ret.fy = RZero /\ lastOp.ret.fz = RZero)

\* a one-axis engine with a non-zero bias made a biased read of a non-zero Fx
C18_Witness ==
  /\ Len(sensor.axis_device_ids) = 1
  /\ called = "get_wrench"
  /\ lastOp.kind = "ok"
  /\ ~lastOp.unbiased
  /\ sensor.bias.fx # RZero
  /\ lastOp.ret.fx # RZero
  /\ lastOp.ret.fy = RZero

-----------------------------------------------------------------------------
(* Claims about the scale factor *)

\* the n_per_count the constructor is asked for is not positive
ArgsScaleNotPositive(args) ==
  IF args.has_n_per_count THEN args.n_per_count[1] <= 0
  ELSE args.force_range_n * args.counts_full_scale <= 0

\* C19: n_per_count is strictly positive in every reachable Engine state:
\* constructing an Engine whose derived or overridden n_per_count is <= 0
\* fails with a configuration error (ValueError "n_per_count must be > 0"),
\* and assigning a value <= 0 through the setter fails and leaves the previous
\* value in force.
C19_ScalePositive ==
  /\ [](sensor.n_per_count[1] > 0 /\ sensor.n_per_count[2] > 0)
  /\ []((called = "__init__" /\ ArgsScaleNotPositive(lastOp.arg))
        => (lastOp.kind = "exc" /\ lastOp.text = "n_per_count must be > 0"))
  /\ []((called = "n_per_count" /\ lastOp.arg[1] <= 0)
        => (lastOp.kind = "exc" /\ lastOp.text = "n_per_count must be > 0"))
  /\ []((called = "n_per_count" /\ lastOp.arg[1] > 0)
        => (lastOp.kind = "ok" /\ sensor.n_per_count = lastOp.arg))
  /\ [][(called' = "n_per_count" /\ lastOp'.arg[1] <= 0)
        => sensor'.n_per_count = sensor.n_per_count]_vars

\* the setter refused -1/2 on an engine whose scale had been set to 40/32768
\* and that holds a bias
C19_Witness ==
  /\ called = "n_per_count"
  /\ lastOp.arg = Rat(-1, 2)
  /\ lastOp.kind = "exc"
  /\ sensor.axis_device_ids = <<1, 2, 3>>
  /\ sensor.n_per_count = Rat(40, 32768)
  /\ sensor.bias # ZeroWrench

-----------------------------------------------------------------------------
(* The controller with the previous poll remembered *)

\* what is remembered of a poll when the next operation starts: what the
\* transport did, whether it started Connected, what it emitted, and the
\* controller state it left
PollBefore ==
  [called |-> "poll", co |-> lastOp.op.co, traces |-> lastOp.op.traces,
   preConnected |-> lastOp.op.preConnected, updated |-> lastOp.op.updated,
   connected |-> connected, last_error |-> last_error, bias |-> sensor.bias]

\* the operation before was not a poll
NoBefore ==
  [called |-> "", co |-> NoConnect, traces |-> <<>>, preConnected |-> FALSE,
   updated |-> <<>>, connected |-> FALSE, last_error |-> "", bias |-> ZeroWrench]

\* the controller's fields after the operation; a poll is recorded in full
\* next to the poll it follows, any other operation in summary
CommitAfter(e, rec) ==
  /\ cfg' = e.c.cfg
  /\ sensor' = e.c.sensor
  /\ connected' = e.c.connected
  /\ last_error' = e.c.last_error
  /\ lastOp' = IF called' = "poll"
               THEN [op |-> rec, before |-> IF called = "poll" THEN PollBefore ELSE NoBefore]
               ELSE [op |-> Summary(rec), before |-> NoBefore]
  /\ UNCHANGED <<api, healthy>>

InitRepoll ==
  /\ cfg = DefaultConfig
  /\ sensor = ControllerInit(DefaultConfig).sensor
  /\ connected = FALSE
  /\ last_error = ""
  /\ api \in ApiChoices
  /\ healthy = FALSE
  /\ called = "init"
  /\ lastOp = [op |-> InitRecord, before |-> NoBefore]

PollAfter ==
  /\ called' = "poll"
  /\ \E co \in ConnectInputs :
       \E trace \in PollInputs(co) :
         \E e \in {poll(Ctl, api, co, trace)} :
           CommitAfter(e, OpRecord(0, co, <<trace>>, e))

\* the `samples` arguments of tare() between polls: refused, or one sample
RepollSampleArgs == {0, 1}

TareAfter ==
  /\ called' = "tare"
  /\ \E samples \in RepollSampleArgs, co \in ConnectInputs :
       \E traces \in TareInputs(co, samples) :
         \E e \in {tare(Ctl, api, samples, co, traces)} :
           CommitAfter(e, OpRecord(samples, co, traces, e))

ClearAfter ==
  /\ called' = "clear"
  /\ \E e \in {clear(Ctl)} :
       CommitAfter(e, OpRecord(0, NoConnect, <<>>, e))

ReconfigureAfter ==
  /\ called' = "reconfigure"
  /\ \E newCfg \in Configs :
       \E e \in {reconfigure(Ctl, newCfg)} :
         CommitAfter(e, OpRecord(0, NoConnect, <<>>, e))

NextRepoll == PollAfter \/ TareAfter \/ ClearAfter \/ ReconfigureAfter

(* SpecRepoll: the controller of Spec, with each poll recorded next to the
   poll that ran just before it (if one did). *)
SpecRepoll == InitRepoll /\ [][NextRepoll]_vars

-----------------------------------------------------------------------------
(* Claims about repeated polls *)

\* two polls met the same transport behaviour: the same connect outcome
\* wherever both called connect(), and the same answers to the read cycle
\* wherever both got as far as reading
SameTransport(r1, r2) ==
  /\ r1.co.t = "none" \/ r2.co.t = "none" \/ r1.co = r2.co
  /\ r1.traces[1] = <<>> \/ r2.traces[1] = <<>> \/ r1.traces[1] = r2.traces[1]

\* the poll just made followed a poll that met the same transport behaviour
Repolled ==
  /\ called = "poll"
  /\ lastOp.before.called = "poll"
  /\ SameTransport(lastOp.before, lastOp.op)

\* the first poll started Connected and lost a register read, and the second
\* could not reconnect
ReadFaultThenConnectFault ==
  /\ lastOp.before.preConnected
  /\ ReadFaulted(lastOp.before)
  /\ ConnectFailed(lastOp.op)

\* C20 as stated: poll() is idempotent under unchanged transport behaviour:
\* from any reachable Controller state and for any fixed connect outcome, read
\* outcome and raw values, a second consecutive poll() leaves the Controller
\* state (connected, lastError, Bias Vector) as the first left it and emits
\* the same notification as the first.
C20_PollIdempotent ==
  Repolled =>
    /\ connected = lastOp.before.connected
    /\ last_error = lastOp.before.last_error
    /\ sensor.bias = lastOp.before.bias
    /\ lastOp.op.updated = lastOp.before.updated

\* C20 as amended: under unchanged transport behaviour a second consecutive
\* poll() leaves the connected flag and the Bias Vector as the first left them
\* and emits the same wrench and connected flag; lastError and the emitted
\* message are the same too, except when the first poll started Connected and
\* its read faulted and connect() then fails: the text then changes from the
\* read error to the connect error.
C20_PollIdempotentUpToMessage ==
  Repolled =>
    /\ connected = lastOp.before.connected
    /\ sensor.bias = lastOp.before.bias
    /\ Len(lastOp.op.updated) = 1 /\ Len(lastOp.before.updated) = 1
    /\ lastOp.op.updated[1].ft = lastOp.before.updated[1].ft
    /\ lastOp.op.updated[1].connected = lastOp.before.updated[1].connected
    /\ ~ReadFaultThenConnectFault =>
         /\ last_error = lastOp.before.last_error
         /\ lastOp.op.updated[1].message = lastOp.before.updated[1].message

\* a poll that started Connected lost a register read; the next poll
\* reconnected, lost the same read and reported the same text, with a bias in
\* force throughout
C20_Witness ==
  /\ Repolled
  /\ lastOp.before.preConnected
  /\ ReadFaulted(lastOp.before)
  /\ lastOp.op.co.t = "true"
  /\ lastOp.op.traces = lastOp.before.traces
  /\ lastOp.op.updated[1].message = "timed out"
  /\ sensor.bias # ZeroWrench

-----------------------------------------------------------------------------
(* Claims about ensure-connected and the calls a poll() or tare() makes *)

\* C21: after any poll() or tare() in which ensure-connected moved the
\* Controller from Disconnected to Connected, lastError no longer holds the
\* error text an earlier failure recorded: a successful connect clears
\* lastError (it is empty, or the success marker "Modbus OK"), whether it was
\* reached from poll() or from tare().
C21_ConnectClearsLastError ==
  (called \in {"poll", "tare"} /\ ~lastOp.preConnected /\ lastOp.co.t = "true" /\ connected)
    => last_error \in {"", "Modbus OK"}

\* C22: a poll() or tare() of a Connected Controller does not call
\* Engine.connect(); one of a Disconnected Controller calls it exactly once;
\* clear() and reconfigure() never call it.
C22_ConnectOnlyWhenDisconnected ==
  /\ called \in {"poll", "tare"} =>
       /\ Len(lastOp.connects) <= 1
       /\ lastOp.preConnected => lastOp.connects = <<>>
       /\ ~lastOp.preConnected => Len(lastOp.connects) = 1
  /\ called \in {"clear", "reconfigure"} => lastOp.connects = <<>>

\* a poll of a Connected controller went straight to reading and lost the
\* second axis
C22_Witness ==
  /\ called = "poll"
  /\ lastOp.preConnected
  /\ lastOp.connects = <<>>
  /\ Len(lastOp.reads) = 2
  /\ ReadFaulted(lastOp)

\* the number of register reads one pass over the table makes when the
\* transport answers with `trace`: up to and including the first axis that fails
PassLength(trace) ==
  LET failing == {i \in 1..Len(trace) : trace[i].t # "regs"}
  IN  IF failing = {} THEN Len(trace)
      ELSE CHOOSE i \in failing : \A j \in failing : i <= j

\* C23: each poll() calls connect() at most once and makes at most one pass
\* over the Axis Address Table, each axis read at most once and in table order:
\* exactly one pass (cut short at the first axis that fails) when the
\* connection is found or established, and no register read at all when the
\* connect attempt fails; nothing is retried within the call.
C23_OneReadCyclePerPoll ==
  called = "poll" =>
    /\ Len(lastOp.connects) <= 1
    /\ Len(lastOp.reads) <= Len(sensor.axis_device_ids)
    /\ ConnectFailed(lastOp) => lastOp.reads = <<>>
    /\ ConnectionOk(lastOp) =>
         /\ Len(lastOp.traces[1]) > 0
         /\ Len(lastOp.reads) = PassLength(lastOp.traces[1])
         /\ ~ReadFaulted(lastOp) => Len(lastOp.reads) = Len(sensor.axis_device_ids)
    /\ \A i \in 1..Len(lastOp.reads) :
         /\ lastOp.reads[i][1] = sensor.axis_device_ids[i]
         /\ lastOp.reads[i][2] = sensor.addresses[i]

\* a poll that had to connect first lost the first of three axes and read no
\* further
C23_Witness ==
  /\ called = "poll"
  /\ lastOp.co.t = "true"
  /\ Len(sensor.axis_device_ids) = 3
  /\ lastOp.traces[1][1].t = "noregs"
  /\ Len(lastOp.reads) = 1
  /\ ~connected

-----------------------------------------------------------------------------
(* The Register Reader on its own: _read_u16 for one axis *)

\* what one calling convention may be answered with: a register that fits 16
\* bits, one that does not, no registers, a rejected signature, another
\* exception
ReaderResps ==
  {RegsResp(40000), RegsResp(65536 + 7), NoRegsResp, TypeErrorResp, RaiseResp("timed out")}

\* the device ids read
ReaderDevices == {1, 2, 3}

\* a read of one axis: the device id, the answer each calling convention
\* would get, and (once read) the outcome and the conventions invoked, in order
ReaderRecord(device_id, resps, r) ==
  [device_id |-> device_id, resps |-> resps, kind |-> r.kind, value |-> r.value,
   text |-> r.text, invoked |-> SubSeq(call_variants, 1, r.calls)]

\* an engine about to read one axis, for every device id and every way the
\* five calling conventions may be answered
InitReader ==
  /\ cfg = DefaultConfig
  /\ sensor = ControllerInit(DefaultConfig).sensor
  /\ connected = FALSE
  /\ last_error = ""
  /\ api \in ApiChoices
  /\ healthy = FALSE
  /\ called = "init"
  /\ lastOp \in {ReaderRecord(d, resps, [kind |-> "", value |-> 0, text |-> "", calls |-> 0]) :
                   d \in ReaderDevices, resps \in [1..Len(call_variants) -> ReaderResps]}

\* self._read_u16(device_id=..., address=...)
ReaderRead ==
  /\ called = "init"
  /\ called' = "_read_u16"
  /\ lastOp' = ReaderRecord(lastOp.device_id, lastOp.resps,
                            read_u16(lastOp.resps, lastOp.device_id))
  /\ UNCHANGED <<cfg, sensor, connected, last_error, api, healthy>>

NextReader == ReaderRead

(* SpecReader: _read_u16 applied to every way the transport may answer the
   five calling conventions. *)
SpecReader == InitReader /\ [][NextReader]_vars

\* the first convention whose answer ends the read: a response holding a
\* register, or an exception other than a signature mismatch (0 if none does)
FirstDecisive(resps) ==
  LET stop == {i \in 1..Len(resps) : resps[i].t \in {"regs", "raise"}}
  IN  IF stop = {} THEN 0 ELSE CHOOSE i \in stop : \A j \in stop : i <= j

\* C24: for one axis, the Register Reader invokes its calling conventions in
\* the fixed list order; a response with no registers or a raised signature
\* mismatch moves on to the next convention; the first register of the first
\* response holding one is returned masked to 16 bits, and no convention after
\* it is invoked; when all conventions are exhausted a single error naming the
\* device id is raised.
C24_ReaderFallback ==
  called = "_read_u16" =>
    LET resps == lastOp.resps
        first == FirstDecisive(resps)
    IN  /\ lastOp.invoked =
             SubSeq(call_variants, 1, IF first = 0 THEN Len(call_variants) ELSE first)
        /\ (first # 0 /\ resps[first].t = "regs") =>
             /\ lastOp.kind = "ok"
             /\ lastOp.value = resps[first].v % 65536
             /\ lastOp.value \in 0..65535
        /\ first = 0 =>
             /\ lastOp.kind = "exc"
             /\ lastOp.text = DeviceErrorText(lastOp.device_id)
             /\ lastOp.text \in {"read_holding_registers failed for device_id=1",
                                 "read_holding_registers failed for device_id=2",
                                 "read_holding_registers failed for device_id=3"}

\* the first convention was rejected, the second answered without registers,
\* the third returned a register wider than 16 bits, and the last two were
\* never invoked although they would have answered
C24_Witness ==
  /\ called = "_read_u16"
  /\ lastOp.resps[1].t = "TypeError"
  /\ lastOp.resps[2].t = "noregs"
  /\ lastOp.resps[3] = RegsResp(65536 + 7)
  /\ lastOp.resps[4] = RegsResp(40000)
  /\ lastOp.invoked = <<"pos_unit", "pos_slave", "kw_unit">>
  /\ lastOp.kind = "ok"
  /\ lastOp.value = 7

-----------------------------------------------------------------------------
(* Claims about what survives a link fault *)

\* C25: the Bias Vector of an Engine changes only on a successful bias() (a
\* tare that succeeds) and on unbias() (clear, to zero); poll() (successful or
\* failed), connect(), close(), ensure-connected and a failed bias()/tare()
\* leave it unchanged (reconfigure() either installs a new Engine with a zero
\* bias or, when the build fails, leaves the old Engine's bias as it was), so
\* the bias set before a link fault is the one a poll subtracts after it
\* reconnects on the same Engine.
C25_BiasChangesOnlyByBiasAndUnbias ==
  /\ [][(sensor'.bias # sensor.bias)
        => \/ (called' = "tare" /\ TareSucceeded(lastOp'))
           \/ (called' = "clear" /\ sensor'.bias = ZeroWrench)
           \/ (called' = "reconfigure" /\ ~lastOp'.escaped /\ sensor'.bias = ZeroWrench)]_vars
  /\ [][(called' = "poll" /\ OpDone /\ ConnectionOk(lastOp') /\ ~ReadFaulted(lastOp'))
        => lastOp'.updated[1].ft[1] =
             RSub(RMulInt(ExpectedCount(lastOp'.traces[1], 1), sensor.n_per_count),
                  sensor.bias.fx)]_vars

\* a poll found the Controller Disconnected (a fault had followed the tare
\* that set the bias), reconnected, and emitted Fx less the bias still in force
C25_Witness ==
  /\ called = "poll"
  /\ ~lastOp.preConnected
  /\ lastOp.co.t = "true"
  /\ ~ReadFaulted(lastOp)
  /\ sensor.bias.fx # RZero
  /\ lastOp.updated[1].ft[1] =
       RSub(RMulInt(ExpectedCount(lastOp.traces[1], 1), sensor.n_per_count), sensor.bias.fx)
  /\ lastOp.updated[1].ft[1] #
       RMulInt(ExpectedCount(lastOp.traces[1], 1), sensor.n_per_count)

-----------------------------------------------------------------------------
(* The controller with the history of its engine's link and of the bias it
   has announced *)

\* what is known of the current Engine's link: the outcome of the most recent
\* connect() on it ("never" if none was made) and whether a register read on
\* it has failed since
LinkRecord(connect, read_failed) == [connect |-> connect, read_failed |-> read_failed]

\* the link of an Engine just built
NewLink == LinkRecord("never", FALSE)

\* the link after an operation that made the connect() calls and read cycles
\* of rec, in that order
LinkAfter(link, rec) ==
  LET n == Len(rec.connects)
      l == IF n = 0 THEN link
           ELSE LinkRecord(IF rec.connects[n].t = "true" THEN "true" ELSE "failed", FALSE)
  IN  IF ReadFaulted(rec) THEN LinkRecord(l.connect, TRUE) ELSE l

\* the tuple most recently emitted on bias_updated
EmittedAfter(emitted, e) ==
  IF e.bias_updated = <<>> THEN emitted ELSE e.bias_updated[Len(e.bias_updated)]

\* the configurations that build
ValidConfigs == {c \in Configs : ~IsExc(build_sensor(c))}

\* the `samples` arguments of tare() in a tracked session
SessionSampleArgs == {0, 1, 2}

\* the controller's fields after the operation and the history after it;
\* rebuilt says the operation installed a new Engine
CommitTracked(e, rec, rebuilt) ==
  /\ cfg' = e.c.cfg
  /\ sensor' = e.c.sensor
  /\ connected' = e.c.connected
  /\ last_error' = e.c.last_error
  /\ lastOp' = [op |-> Summary(rec),
                link |-> LinkAfter(IF rebuilt THEN NewLink ELSE lastOp.link, rec),
                emitted |-> EmittedAfter(lastOp.emitted, e),
                reconfigured |-> lastOp.reconfigured \/ rebuilt]
  /\ UNCHANGED <<api, healthy>>

InitTracked ==
  /\ cfg = DefaultConfig
  /\ sensor = ControllerInit(DefaultConfig).sensor
  /\ connected = FALSE
  /\ last_error = ""
  /\ api \in ApiChoices
  /\ healthy = FALSE
  /\ called = "init"
  /\ lastOp = [op |-> InitRecord, link |-> NewLink, emitted |-> ZeroTuple,
               reconfigured |-> FALSE]

PollTracked ==
  /\ called' = "poll"
  /\ \E co \in ConnectInputs :
       \E trace \in PollInputs(co) :
         \E e \in {poll(Ctl, api, co, trace)} :
           CommitTracked(e, OpRecord(0, co, <<trace>>, e), FALSE)

TareTracked ==
  /\ called' = "tare"
  /\ \E samples \in SessionSampleArgs, co \in ConnectInputs :
       \E traces \in TareInputs(co, samples) :
         \E e \in {tare(Ctl, api, samples, co, traces)} :
           CommitTracked(e, OpRecord(samples, co, traces, e), FALSE)

ClearTracked ==
  /\ called' = "clear"
  /\ \E e \in {clear(Ctl)} :
       CommitTracked(e, OpRecord(0, NoConnect, <<>>, e), FALSE)

\* settings saved, with a configuration that builds
ReconfigureTracked ==
  /\ called' = "reconfigure"
  /\ \E newCfg \in ValidConfigs :
       \E e \in {reconfigure(Ctl, newCfg)} :
         CommitTracked(e, OpRecord(0, NoConnect, <<>>, e), TRUE)

NextTracked == PollTracked \/ TareTracked \/ ClearTracked \/ ReconfigureTracked

(* SpecTracked: the controller of Spec reconfigured with valid configurations
   only, with the history of the link and of the bias announced. *)
SpecTracked == InitTracked /\ [][NextTracked]_vars

\* C26: in every state reachable through poll, tare, clear and reconfigure
\* with valid configurations, if the connected flag is true then the most
\* recent Engine.connect() on the current Engine returned true and no register
\* read on that Engine has failed since that connect.
C26_ConnectedMeansLinkUp ==
  connected => (lastOp.link.connect = "true" /\ ~lastOp.link.read_failed)

\* a poll has reconnected an Engine on which a fault had followed a tare
C26_Witness ==
  /\ connected
  /\ called = "poll"
  /\ ~lastOp.op.preConnected
  /\ sensor.bias # ZeroWrench
  /\ lastOp.link = LinkRecord("true", FALSE)

\* C27: over any sequence of poll, tare and clear calls (no reconfigure), the
\* bias tuple most recently emitted through `bias_updated` (all-zero before the
\* first emission) equals the Engine's current Bias Vector.
C27_AnnouncedBiasIsCurrent ==
  ~lastOp.reconfigured => lastOp.emitted = BiasTuple

\* a bias was announced and a later poll failed; the announced tuple is still
\* the Engine's bias
C27_Witness ==
  /\ ~lastOp.reconfigured
  /\ called = "poll"
  /\ ~connected
  /\ lastOp.link.read_failed
  /\ lastOp.emitted # ZeroTuple
  /\ lastOp.emitted = BiasTuple

-----------------------------------------------------------------------------
(* Claims about Engine.close() *)

\* C28: poll(), tare() and clear() never call Engine.close(), not even when a
\* connect failure or a read fault forces Disconnected; a poll() or tare() of
\* a Disconnected Controller calls Engine.connect() once, on the Engine that
\* was there before the call; reconfigure() calls Engine.close() exactly once,
\* before the new Engine is built (so also when the build then fails).
C28_CloseOnlyOnReconfigure ==
  /\ [](called \in {"poll", "tare", "clear"} => lastOp.closes = 0)
  /\ [](called = "reconfigure" => (lastOp.closes = 1 /\ lastOp.connects = <<>>))
  /\ []((called \in {"poll", "tare"} /\ ~lastOp.preConnected)
        => Len(lastOp.connects) = 1)
  /\ [][(called' \in {"poll", "tare"} /\ OpDone)
        => sensor' = [sensor EXCEPT !.bias = sensor'.bias]]_vars

\* a poll found the Controller Disconnected by a fault that had followed a
\* tare, and reconnected the same Engine without any close()
C28_Witness ==
  /\ called = "poll"
  /\ ~lastOp.preConnected
  /\ lastOp.connects = <<ConnectTrue>>
  /\ lastOp.closes = 0
  /\ sensor.bias # ZeroWrench
  /\ connected

====
